---- MODULE Spec2Model ----
(***************************************************************************)
(* Model of the benchmark version utilities (lib/benchmarkVersionUtils.ts) *)
(* and of the cancellation hook (hooks/useBenchmarkCancellation.ts).       *)
(*                                                                         *)
(* Spec     : one call of one of the four pure functions on arguments      *)
(*            drawn from bounded sets.                                     *)
(* HookSpec : overlapping handleCancelRun invocations on one hook.         *)
(***************************************************************************)
EXTENDS Integers, Sequences, FiniteSets

VARIABLES
    args,             \* the objects the caller passed, as the caller sees them now
    result,           \* the value the function returned (None before it returns)
    pc,               \* "call" before the function ran, "returned" after
    cancellingRunId,  \* the hook's state: Some(runId) or None (null)
    calls,            \* the handleCancelRun invocations, one record each
    errorLog          \* number of console.error reports

vars == <<args, result, pc, cancellingRunId, calls, errorLog>>

----------------------------------------------------------------------------
(* Bounds                                                                  *)

MaxVersions == 3      \* longest benchmark.versions
MaxRuns == 2          \* longest runs array
MaxTestCases == 2     \* longest testCases array
MaxCalls == 3         \* handleCancelRun invocations on one hook

----------------------------------------------------------------------------
(* Optional values: null / undefined is None, a present value x is Some(x) *)

None == <<>>
Some(x) == <<x>>
IsSome(o) == o # <<>>
Get(o) == o[1]

Range(s) == {s[i] : i \in DOMAIN s}
SeqsUpTo(S, n) == UNION {[1..k -> S] : k \in 0..n}

----------------------------------------------------------------------------
(* Array built-ins used by the source                                      *)

\* Array.prototype.includes
includes(arr, x) == \E i \in DOMAIN arr : arr[i] = x

\* Callbacks are passed as functions: a test maps each element of the array to
\* a boolean, a compareFn maps each pair of elements to a number.

\* Array.prototype.filter: the elements passing the test, in array order
filter(arr, test) ==
    LET Passes(x) == test[x] IN SelectSeq(arr, Passes)

\* Array.prototype.find: the first element passing the test, or undefined
find(arr, test) ==
    IF \E i \in DOMAIN arr : test[arr[i]]
    THEN Some(arr[CHOOSE i \in DOMAIN arr :
                     test[arr[i]] /\ \A j \in 1..(i - 1) : ~test[arr[j]]])
    ELSE None

\* The order Array.prototype.sort(compareFn) leaves: a before b when
\* compareFn(a, b) < 0, equal elements in their former order (the sort is stable).
sorted(arr, compareFn) ==
    LET n == Len(arr)
        before(j, i) == \/ compareFn[<<arr[j], arr[i]>>] < 0
                        \/ compareFn[<<arr[j], arr[i]>>] = 0 /\ j < i
        rank(i) == Cardinality({j \in 1..n : before(j, i)}) + 1
    IN  [r \in 1..n |-> arr[CHOOSE i \in 1..n : rank(i) = r]]

\* Arrays are objects: a store maps array references to their elements.
\* "input" is the caller's array, "copy" the one the function allocates.

\* arr.slice() / [...arr]: a new array with the same elements; returns its reference
\* (faulty variant: no copy is made, the caller's array is handed on)
slice_NoCopy(store, ref) == [store |-> store, ref |-> ref]
slice(store, ref) ==
    [store |-> [store EXCEPT !["copy"] = store[ref]], ref |-> "copy"]

spread(store, ref) ==
    [store |-> [store EXCEPT !["copy"] = store[ref]], ref |-> "copy"]

\* arr.sort(compareFn): reorders the array behind ref, in place
sort(store, ref, compareFn) ==
    [store EXCEPT ![ref] = sorted(store[ref], compareFn)]

----------------------------------------------------------------------------
(* Date parsing: new Date(createdAt).getTime(), in hours since             *)
(* 2026-01-01T00:00:00Z, for the timestamps the model draws from.          *)

Timestamps ==
    { "2026-01-01T00:00:00Z",
      "2026-01-02T00:00:00+05:00",
      "2026-01-01T20:00:00Z" }

getTime(createdAt) ==
    CASE createdAt = "2026-01-01T00:00:00Z"      -> 0
      [] createdAt = "2026-01-02T00:00:00+05:00" -> 19
      [] createdAt = "2026-01-01T20:00:00Z"      -> 20

----------------------------------------------------------------------------
(* lib/benchmarkVersionUtils.ts                                            *)

\* (x || 1) on an optional number: undefined and 0 are falsy
OrOne(benchmarkVersion) ==
    IF benchmarkVersion = None \/ benchmarkVersion = Some(0)
    THEN 1
    ELSE Get(benchmarkVersion)

\* (a, b) => b.version - a.version
\* (faulty variant: oldest first)
compareVersionAsc(a, b) == a.version - b.version
compareVersion(a, b) == b.version - a.version

\* (a, b) => new Date(b.createdAt).getTime() - new Date(a.createdAt).getTime()
compareCreatedAt(a, b) == getTime(b.createdAt) - getTime(a.createdAt)

\* v.testCaseIds.filter(id => !prevVersion.testCaseIds.includes(id))
\* (faulty variant: the two lists exchanged)
notIn_Swapped(ids, other) ==
    filter(other, [id \in Range(other) |-> ~includes(ids, id)])
notIn(ids, other) ==
    filter(ids, [id \in Range(ids) |-> ~includes(other, id)])

\* benchmark.runs?.filter(r => (r.benchmarkVersion || 1) === v.version).length || 0
runCountOf(runs, version) ==
    IF runs = None
    THEN 0
    ELSE Len(filter(Get(runs),
                    [r \in Range(Get(runs)) |-> OrOne(r.benchmarkVersion) = version]))

\* the .map callback: the element at index of arr, annotated
versionDataAt(arr, index, runs) ==
    LET v == arr[index]
        hasPrev == index + 1 \in DOMAIN arr
        added == IF hasPrev THEN notIn(v.testCaseIds, arr[index + 1].testCaseIds)
                            ELSE <<>>
        removed == IF hasPrev THEN notIn(arr[index + 1].testCaseIds, v.testCaseIds)
                              ELSE <<>>
    IN  [version     |-> v.version,
         createdAt   |-> v.createdAt,
         testCaseIds |-> v.testCaseIds,
         isLatest    |-> (index = 1),
         added       |-> added,
         removed     |-> removed,
         runCount    |-> runCountOf(runs, v.version)]

\* computeVersionData(benchmark): the returned array, and the benchmark's
\* versions array as the call leaves it
computeVersionData(benchmark) ==
    IF benchmark = None \/ Get(benchmark).versions = None
       \/ Len(Get(Get(benchmark).versions)) = 0
    THEN [result |-> <<>>, benchmark |-> benchmark]
    ELSE LET b == Get(benchmark)
             s0 == [input |-> Get(b.versions), copy |-> <<>>]
             c == slice(s0, "input")
             s1 == sort(c.store, c.ref,
                        [p \in Range(s0.input) \X Range(s0.input) |->
                            compareVersion(p[1], p[2])])
             arr == s1[c.ref]
         IN  [result    |-> [i \in DOMAIN arr |-> versionDataAt(arr, i, b.runs)],
              benchmark |-> Some([b EXCEPT !.versions = Some(s1["input"])])]

\* getSelectedVersionData(versionData, selectedVersion)
\* (faulty variant: no fallback to versionData[0])
getSelectedVersionData_NoFallback(versionData, selectedVersion) ==
    IF Len(versionData) = 0 THEN None
    ELSE IF selectedVersion = None THEN Some(versionData[1])
    ELSE find(versionData,
              [v \in Range(versionData) |-> v.version = Get(selectedVersion)])
getSelectedVersionData(versionData, selectedVersion) ==
    IF Len(versionData) = 0 THEN None
    ELSE IF selectedVersion = None THEN Some(versionData[1])
    ELSE LET found == find(versionData,
                           [v \in Range(versionData) |->
                               v.version = Get(selectedVersion)])
         IN  IF IsSome(found) THEN found ELSE Some(versionData[1])

\* getVersionTestCases(testCases, selectedVersionData)
\* (faulty variant: looks each id up, in the order of testCaseIds)
getVersionTestCases_ByIdOrder(testCases, selectedVersionData) ==
    IF selectedVersionData = None THEN <<>>
    ELSE LET ids == Get(selectedVersionData).testCaseIds
             kept == filter(ids, [id \in Range(ids) |->
                                    \E i \in DOMAIN testCases : testCases[i].id = id])
         IN  [k \in DOMAIN kept |->
                 testCases[CHOOSE i \in DOMAIN testCases :
                     /\ testCases[i].id = kept[k]
                     /\ \A j \in 1..(i - 1) : testCases[j].id # kept[k]]]
getVersionTestCases(testCases, selectedVersionData) ==
    IF selectedVersionData = None THEN <<>>
    ELSE filter(testCases,
                [tc \in Range(testCases) |->
                    includes(Get(selectedVersionData).testCaseIds, tc.id)])

\* filterRunsByVersion(runs, versionFilter): the returned array, and the runs
\* array as the call leaves it.  versionFilter is None for 'all'.
filterRunsByVersion(runs, versionFilter) ==
    IF runs = None
    THEN [result |-> <<>>, runs |-> runs]
    ELSE LET s0 == [input |-> Get(runs), copy |-> <<>>]
             c == spread(s0, "input")
             s1 == sort(c.store, c.ref,
                        [p \in Range(s0.input) \X Range(s0.input) |->
                            compareCreatedAt(p[1], p[2])])
             arr == s1[c.ref]
         IN  [result |-> IF versionFilter = None
                         THEN arr
                         ELSE filter(arr, [run \in Range(arr) |->
                                  OrOne(run.benchmarkVersion) = Get(versionFilter)]),
              runs   |-> Some(s1["input"])]

----------------------------------------------------------------------------
(* The arguments the calls are made with                                   *)

VersionNumbers == {1, 2, 3}
RunVersions == {None, Some(0), Some(1), Some(2)}
SelectableVersions == {None, Some(0), Some(1), Some(2), Some(3), Some(4)}
RunNames == <<"run-1", "run-2", "run-3", "run-4">>
CaseIds == {"tc-1", "tc-2"}
CaseNames == {"A", "B"}

\* testCaseIds with a common id, a reordering, an id no test case has, a duplicate
IdLists ==
    { <<"tc-1", "tc-2">>, <<"tc-2", "tc-3">>, <<"tc-2", "tc-1">>, <<"tc-3", "tc-3">> }

VersionsOver(idLists) ==
    SeqsUpTo([version : VersionNumbers, createdAt : {"2026-01-01T00:00:00Z"},
              testCaseIds : idLists], MaxVersions)

RunsOver(stamps) ==
    { [i \in DOMAIN f |-> [id |-> RunNames[i], createdAt |-> f[i][1],
                           benchmarkVersion |-> f[i][2]]] :
        f \in SeqsUpTo(stamps \X RunVersions, MaxRuns) }

\* Benchmarks for the version diff: every version list, without runs
DiffBenchmarks ==
    {None} \cup
    { Some([versions |-> vs, runs |-> None]) :
        vs \in {None} \cup {Some(l) : l \in VersionsOver(IdLists)} }

\* Benchmarks for the run count: every run list, versions with the same test cases
CountBenchmarks ==
    { Some([versions |-> Some(l), runs |-> rs]) :
        l \in VersionsOver({<<"tc-1", "tc-2">>}),
        rs \in {Some(r) : r \in RunsOver({"2026-01-01T00:00:00Z"})} }

\* Version data handed to the selector: computed from benchmarks whose versions
\* can be told apart by their test cases
SelectorData ==
    { computeVersionData(Some([versions |-> Some(l), runs |-> None])).result :
        l \in VersionsOver({<<"tc-1", "tc-2">>, <<"tc-2", "tc-3">>}) }

\* Version data handed to the projector: the latest of a one-version benchmark
ProjectorData ==
    {None} \cup
    { Some(computeVersionData(Some([versions |-> Some(<<v>>), runs |-> None])).result[1]) :
        v \in [version : {1}, createdAt : {"2026-01-01T00:00:00Z"},
               testCaseIds : IdLists] }

Calls ==
    { [op |-> "computeVersionData", benchmark |-> b] :
        b \in DiffBenchmarks \cup CountBenchmarks }
    \cup
    { [op |-> "getSelectedVersionData", versionData |-> d, selectedVersion |-> v] :
        d \in SelectorData, v \in SelectableVersions }
    \cup
    { [op |-> "getVersionTestCases", testCases |-> t, selectedVersionData |-> d] :
        t \in SeqsUpTo([id : CaseIds, name : CaseNames], MaxTestCases),
        d \in ProjectorData }
    \cup
    { [op |-> "filterRunsByVersion", runs |-> r, versionFilter |-> f] :
        r \in {None} \cup {Some(l) : l \in RunsOver(Timestamps)},
        f \in {None, Some(0), Some(1), Some(2)} }

HookIdle ==
    /\ cancellingRunId = None
    /\ calls = <<>>
    /\ errorLog = 0

Init ==
    /\ args \in Calls
    /\ result = None
    /\ pc = "call"
    /\ HookIdle

ComputeVersionData ==
    /\ pc = "call"
    /\ args.op = "computeVersionData"
    /\ LET r == computeVersionData(args.benchmark)
       IN  /\ result' = Some(r.result)
           /\ args' = [args EXCEPT !.benchmark = r.benchmark]
    /\ pc' = "returned"
    /\ UNCHANGED <<cancellingRunId, calls, errorLog>>

GetSelectedVersionData ==
    /\ pc = "call"
    /\ args.op = "getSelectedVersionData"
    /\ result' = Some(getSelectedVersionData(args.versionData, args.selectedVersion))
    /\ pc' = "returned"
    /\ UNCHANGED <<args, cancellingRunId, calls, errorLog>>

GetVersionTestCases ==
    /\ pc = "call"
    /\ args.op = "getVersionTestCases"
    /\ result' = Some(getVersionTestCases(args.testCases, args.selectedVersionData))
    /\ pc' = "returned"
    /\ UNCHANGED <<args, cancellingRunId, calls, errorLog>>

FilterRunsByVersion ==
    /\ pc = "call"
    /\ args.op = "filterRunsByVersion"
    /\ LET r == filterRunsByVersion(args.runs, args.versionFilter)
       IN  /\ result' = Some(r.result)
           /\ args' = [args EXCEPT !.runs = r.runs]
    /\ pc' = "returned"
    /\ UNCHANGED <<cancellingRunId, calls, errorLog>>

Next ==
    \/ ComputeVersionData
    \/ GetSelectedVersionData
    \/ GetVersionTestCases
    \/ FilterRunsByVersion

Spec == Init /\ [][Next]_vars

----------------------------------------------------------------------------
(* hooks/useBenchmarkCancellation.ts                                       *)
(*                                                                         *)
(* A frame is what one step of an invocation reads and writes: the hook's  *)
(* cancellingRunId, the invocation's own record and the error log.         *)
(* Invocation record:                                                      *)
(*   runId, onSuccess (TRUE when the callback was passed),                 *)
(*   pc        "awaitCancel" | "awaitOnSuccess" | "done",                  *)
(*   cancel    "pending" | "ok" | "failed"   outcome of cancelBenchmarkRun *)
(*   markerAtCall   cancellingRunId when cancelBenchmarkRun was called     *)
(*   onSuccessCalls how often the callback was invoked,                    *)
(*   exit      "none" | "success" | "cancelFailed" | "onSuccessFailed",    *)
(*   settled   "pending" | "fulfilled" | "rejected"  the returned promise  *)

HookRunIds == {"run-1", "run-2"}

\* isCancelling(runId)
isCancelling(runId) == cancellingRunId = Some(runId)

\* setCancellingRunId(value)
setCancellingRunId(frame, value) == [frame EXCEPT !.cancellingRunId = value]

\* catch (error) { console.error(...) }
catchBlock(frame) == [frame EXCEPT !.errorLog = @ + 1]

\* finally { setCancellingRunId(null) }, after which the async function returns
finallyBlock(frame) ==
    [setCancellingRunId(frame, None) EXCEPT !.call.pc = "done",
                                            !.call.settled = "fulfilled"]

\* lines 39-41: set the marker, enter try, call cancelBenchmarkRun and await it
enterCall(frame, runId, onSuccess) ==
    LET marked == setCancellingRunId(frame, Some(runId))
    IN  [marked EXCEPT !.call =
            [runId |-> runId, onSuccess |-> onSuccess, pc |-> "awaitCancel",
             cancel |-> "pending", markerAtCall |-> marked.cancellingRunId,
             onSuccessCalls |-> 0, exit |-> "none", settled |-> "pending"]]

\* the await of cancelBenchmarkRun rejected: catch, then finally
\* (faulty variants: the marker is not cleared; onSuccess is invoked anyway)
afterCancelRejected_NoClear(frame) ==
    [catchBlock([frame EXCEPT !.call.cancel = "failed", !.call.exit = "cancelFailed"])
        EXCEPT !.call.pc = "done", !.call.settled = "fulfilled"]
afterCancelRejected_CallsOnSuccess(frame) ==
    LET failed == [frame EXCEPT !.call.cancel = "failed", !.call.exit = "cancelFailed",
                                !.call.onSuccessCalls =
                                    IF frame.call.onSuccess THEN @ + 1 ELSE @]
    IN  finallyBlock(catchBlock(failed))
afterCancelRejected(frame) ==
    LET failed == [frame EXCEPT !.call.cancel = "failed", !.call.exit = "cancelFailed"]
    IN  finallyBlock(catchBlock(failed))

\* the await of cancelBenchmarkRun resolved: if (onSuccess) await onSuccess().
\* throws is TRUE when onSuccess() throws before returning a promise.
afterCancelResolved(frame, throws) ==
    LET ok == [frame EXCEPT !.call.cancel = "ok"]
    IN  IF ~ok.call.onSuccess
        THEN finallyBlock([ok EXCEPT !.call.exit = "success"])
        ELSE LET invoked == [ok EXCEPT !.call.onSuccessCalls = @ + 1]
             IN  IF throws
                 THEN finallyBlock(catchBlock(
                          [invoked EXCEPT !.call.exit = "onSuccessFailed"]))
                 ELSE [invoked EXCEPT !.call.pc = "awaitOnSuccess"]

\* the await of onSuccess() resolved: the try block ends, then finally
afterOnSuccessResolved(frame) ==
    finallyBlock([frame EXCEPT !.call.exit = "success"])

\* the await of onSuccess() rejected: catch, then finally
afterOnSuccessRejected(frame) ==
    finallyBlock(catchBlock([frame EXCEPT !.call.exit = "onSuccessFailed"]))

Frame(i) == [cancellingRunId |-> cancellingRunId, call |-> calls[i], errorLog |-> errorLog]

Commit(i, frame) ==
    /\ cancellingRunId' = frame.cancellingRunId
    /\ calls' = [calls EXCEPT ![i] = frame.call]
    /\ errorLog' = frame.errorLog
    /\ UNCHANGED <<args, result, pc>>

\* handleCancelRun(benchmarkId, runId, onSuccess) up to its first await
HandleCancelRun(runId, onSuccess) ==
    /\ Len(calls) < MaxCalls
    /\ LET frame == enterCall([cancellingRunId |-> cancellingRunId,
                               call |-> <<>>, errorLog |-> errorLog],
                              runId, onSuccess)
       IN  /\ cancellingRunId' = frame.cancellingRunId
           /\ calls' = Append(calls, frame.call)
           /\ errorLog' = frame.errorLog
    /\ UNCHANGED <<args, result, pc>>

CancelResolves(i, throws) ==
    /\ calls[i].pc = "awaitCancel"
    /\ throws => calls[i].onSuccess
    /\ Commit(i, afterCancelResolved(Frame(i), throws))

CancelRejects(i) ==
    /\ calls[i].pc = "awaitCancel"
    /\ Commit(i, afterCancelRejected(Frame(i)))

OnSuccessResolves(i) ==
    /\ calls[i].pc = "awaitOnSuccess"
    /\ Commit(i, afterOnSuccessResolved(Frame(i)))

OnSuccessRejects(i) ==
    /\ calls[i].pc = "awaitOnSuccess"
    /\ Commit(i, afterOnSuccessRejected(Frame(i)))

UtilsIdle ==
    /\ args = [op |-> "none"]
    /\ result = None
    /\ pc = "idle"

HookInit ==
    /\ UtilsIdle
    /\ HookIdle

HookNext ==
    \/ \E runId \in HookRunIds, onSuccess \in BOOLEAN : HandleCancelRun(runId, onSuccess)
    \/ \E i \in DOMAIN calls, throws \in BOOLEAN : CancelResolves(i, throws)
    \/ \E i \in DOMAIN calls : CancelRejects(i)
    \/ \E i \in DOMAIN calls : OnSuccessResolves(i)
    \/ \E i \in DOMAIN calls : OnSuccessRejects(i)

HookSpec == HookInit /\ [][HookNext]_vars

----------------------------------------------------------------------------
(* Properties of the version utilities (checked under Spec)                *)

Returned(op) == pc = "returned" /\ args.op = op

NoVersions(benchmark) ==
    \/ benchmark = None
    \/ Get(benchmark).versions = None
    \/ Get(Get(benchmark).versions) = <<>>

VersionsOf(benchmark) == Get(Get(benchmark).versions)

UniqueVersions(vs) ==
    \A i, j \in DOMAIN vs : vs[i].version = vs[j].version => i = j

\* The k-th smallest member of a set of indices
Nth(I, k) == CHOOSE i \in I : Cardinality({j \in I : j < i}) = k - 1

\* seq restricted to the positions in I, in increasing order of position
Restrict(seq, I) == [k \in 1..Cardinality(I) |-> seq[Nth(I, k)]]

\* C1: computeVersionData returns [] for a null benchmark, absent versions or
\* empty versions; for versions with unique numbers it returns one element per
\* version, strictly descending by version number, with exactly one isLatest
\* element, the one with the maximum version number.
C1_SortedWithOneLatest ==
    Returned("computeVersionData") =>
        LET out == Get(result)
        IN  IF NoVersions(args.benchmark)
            THEN out = <<>>
            ELSE LET vs == VersionsOf(args.benchmark)
                 IN  UniqueVersions(vs) =>
                        /\ Len(out) = Len(vs)
                        /\ \A i \in DOMAIN vs : \E j \in DOMAIN out :
                              /\ out[j].version = vs[i].version
                              /\ out[j].createdAt = vs[i].createdAt
                              /\ out[j].testCaseIds = vs[i].testCaseIds
                        /\ \A j \in 1..(Len(out) - 1) : out[j].version > out[j + 1].version
                        /\ Cardinality({j \in DOMAIN out : out[j].isLatest}) = 1
                        /\ \A j \in DOMAIN out :
                              out[j].isLatest =>
                                  \A i \in DOMAIN vs : vs[i].version <= out[j].version

\* C1 witness: three versions with unique numbers, passed out of order
C1_Witness ==
    /\ Returned("computeVersionData")
    /\ ~NoVersions(args.benchmark)
    /\ LET vs == VersionsOf(args.benchmark)
       IN  /\ Len(vs) = 3
           /\ UniqueVersions(vs)
           /\ vs[1].version < vs[2].version
           /\ vs[3].version < vs[2].version

\* C2: for adjacent result elements (new at i, old at i+1), new.added is the ids
\* of new.testCaseIds that old.testCaseIds lacks, in new's order, new.removed is
\* the ids of old.testCaseIds that new.testCaseIds lacks, in old's order, and the
\* two share no id; the last element has added = [] and removed = [].
C2_AdjacentDiff ==
    Returned("computeVersionData") =>
        LET out == Get(result)
            Lacking(ids, other) ==
                Restrict(ids, {k \in DOMAIN ids : ids[k] \notin Range(other)})
        IN  /\ \A i \in 1..(Len(out) - 1) :
                  /\ out[i].added = Lacking(out[i].testCaseIds, out[i + 1].testCaseIds)
                  /\ out[i].removed = Lacking(out[i + 1].testCaseIds, out[i].testCaseIds)
                  /\ Range(out[i].added) \cap Range(out[i].removed) = {}
            /\ out # <<>> =>
                  /\ out[Len(out)].added = <<>>
                  /\ out[Len(out)].removed = <<>>

\* C2 witness: a version that adds two ids in its own order and removes ids
C2_Witness ==
    /\ Returned("computeVersionData")
    /\ \E i \in DOMAIN Get(result) :
          /\ Get(result)[i].added = <<"tc-2", "tc-1">>
          /\ Get(result)[i].removed # <<>>

\* The effective version of a run as documented: benchmarkVersion when the
\* field is present, 1 only when it is absent
DocumentedVersion(run) ==
    IF run.benchmarkVersion = None THEN 1 ELSE Get(run.benchmarkVersion)

\* C3: every version's runCount is the number of the benchmark's runs whose
\* effective version (benchmarkVersion if present, 1 only if absent) is that
\* version's number, and 0 when the benchmark has no runs.
C3_RunCountByEffectiveVersion ==
    (Returned("computeVersionData") /\ ~NoVersions(args.benchmark)) =>
        LET out == Get(result)
            runs == Get(args.benchmark).runs
        IN  \A i \in DOMAIN out :
                out[i].runCount =
                    IF runs = None THEN 0
                    ELSE Cardinality({j \in DOMAIN Get(runs) :
                            DocumentedVersion(Get(runs)[j]) = out[i].version})

\* C4: getSelectedVersionData returns null for empty data; data[0] when selected
\* is null; otherwise the first element whose version equals selected, or data[0]
\* when none matches; for non-empty data the result is always an element of data.
C4_SelectWithFallback ==
    Returned("getSelectedVersionData") =>
        LET data == args.versionData
            sel == args.selectedVersion
            out == Get(result)
            hits == IF sel = None THEN {}
                    ELSE {i \in DOMAIN data : data[i].version = Get(sel)}
        IN  IF data = <<>> THEN out = None
            ELSE /\ out # None
                 /\ Get(out) \in Range(data)
                 /\ sel = None => out = Some(data[1])
                 /\ (sel # None /\ hits # {}) => out = Some(data[Nth(hits, 1)])
                 /\ (sel # None /\ hits = {}) => out = Some(data[1])

\* C4 witness: non-empty data and a selected version no element has
C4_Witness ==
    /\ Returned("getSelectedVersionData")
    /\ Len(args.versionData) >= 2
    /\ args.selectedVersion # None
    /\ \A i \in DOMAIN args.versionData :
          args.versionData[i].version # Get(args.selectedVersion)
    /\ Get(result) = Some(args.versionData[1])

\* C5: filterRunsByVersion returns [] for absent runs; with 'all' every input run
\* exactly once, newest createdAt first; with a number n exactly the runs whose
\* effective version (benchmarkVersion if present, else 1) is n, newest first,
\* a subsequence of the result for 'all'.
C5_FilterByEffectiveVersion ==
    Returned("filterRunsByVersion") =>
        LET out == Get(result)
            NewestFirst(seq) ==
                \A k \in 1..(Len(seq) - 1) :
                    getTime(seq[k].createdAt) >= getTime(seq[k + 1].createdAt)
        IN  IF args.runs = None THEN out = <<>>
            ELSE LET runs == Get(args.runs)
                     all == filterRunsByVersion(args.runs, None).result
                     wanted == IF args.versionFilter = None THEN DOMAIN runs
                               ELSE {j \in DOMAIN runs :
                                       DocumentedVersion(runs[j]) = Get(args.versionFilter)}
                 IN  /\ NewestFirst(out)
                     /\ Len(out) = Cardinality(wanted)
                     /\ Range(out) = {runs[j] : j \in wanted}
                     /\ \E I \in SUBSET DOMAIN all : out = Restrict(all, I)

\* C6: getVersionTestCases returns [] for an absent version; otherwise exactly
\* the test cases whose id is in the version's testCaseIds, in the order of
\* testCases; ids that match no test case are ignored.
C6_ProjectInCaseOrder ==
    Returned("getVersionTestCases") =>
        LET out == Get(result)
            cases == args.testCases
        IN  IF args.selectedVersionData = None THEN out = <<>>
            ELSE LET ids == Get(args.selectedVersionData).testCaseIds
                 IN  out = Restrict(cases, {i \in DOMAIN cases : cases[i].id \in Range(ids)})

\* C6 witness: two matching test cases listed in the opposite order of the ids
C6_Witness ==
    /\ Returned("getVersionTestCases")
    /\ args.selectedVersionData # None
    /\ Get(args.selectedVersionData).testCaseIds = <<"tc-1", "tc-2">>
    /\ Len(args.testCases) = 2
    /\ args.testCases[1].id = "tc-2"
    /\ args.testCases[2].id = "tc-1"
    /\ Get(result) = args.testCases

\* C7: a call of computeVersionData or filterRunsByVersion leaves the caller's
\* benchmark.versions (with each testCaseIds) and runs as they were.
C7_InputsUntouched ==
    [][args.op \in {"computeVersionData", "filterRunsByVersion"} => args' = args]_vars

\* C7 witness: computeVersionData returned an order other than the one passed
C7_Witness ==
    /\ Returned("computeVersionData")
    /\ ~NoVersions(args.benchmark)
    /\ \E i \in DOMAIN Get(result) :
          Get(result)[i].version # VersionsOf(args.benchmark)[i].version

----------------------------------------------------------------------------
(* Properties of the cancellation hook (checked under HookSpec)            *)

InFlight(call) == call.pc \in {"awaitCancel", "awaitOnSuccess"}

\* C8: onSuccess is invoked only after the invocation's cancelBenchmarkRun
\* succeeded and never when it failed; a failure of the call or of onSuccess is
\* logged and handleCancelRun still completes without throwing.
C8_OnSuccessOnlyAfterSuccess ==
    /\ \A i \in DOMAIN calls :
          /\ calls[i].onSuccessCalls > 0 => (calls[i].cancel = "ok" /\ calls[i].onSuccess)
          /\ calls[i].cancel = "failed" => calls[i].onSuccessCalls = 0
          /\ calls[i].settled # "rejected"
          /\ calls[i].pc = "done" => calls[i].settled = "fulfilled"
    /\ errorLog = Cardinality({i \in DOMAIN calls :
                      calls[i].exit \in {"cancelFailed", "onSuccessFailed"}})

\* C8 witness: a completed invocation whose cancellation failed although a
\* callback was passed, and one whose callback failed
C8_Witness ==
    /\ \E i \in DOMAIN calls :
          /\ calls[i].pc = "done"
          /\ calls[i].onSuccess
          /\ calls[i].exit = "cancelFailed"
    /\ \E i \in DOMAIN calls :
          /\ calls[i].pc = "done"
          /\ calls[i].exit = "onSuccessFailed"

\* C9: every invocation sets the marker to its run id before the cancellation
\* call starts and clears it on every exit path, so once every started
\* invocation has completed cancellingRunId is null and isCancelling is false
\* for every run.
C9_MarkerSetThenCleared ==
    /\ [][/\ Len(calls') > Len(calls) =>
                /\ calls'[Len(calls')].markerAtCall = Some(calls'[Len(calls')].runId)
                /\ cancellingRunId' = Some(calls'[Len(calls')].runId)
          /\ \A i \in DOMAIN calls :
                (calls[i].pc # "done" /\ calls'[i].pc = "done") => cancellingRunId' = None
         ]_vars
    /\ []((\A i \in DOMAIN calls : calls[i].pc = "done") =>
             /\ cancellingRunId = None
             /\ \A r \in HookRunIds : ~isCancelling(r))

\* C9 witness: every invocation completed, on each of the three exit paths
C9_Witness ==
    /\ \A i \in DOMAIN calls : calls[i].pc = "done"
    /\ {calls[i].exit : i \in DOMAIN calls} = {"success", "cancelFailed", "onSuccessFailed"}
    /\ cancellingRunId = None

\* C10: isCancelling(r) is true from the moment an invocation for r has set the
\* marker until that invocation exits, whatever other invocations overlap, and
\* at most one cancellation per run id is tracked at a time.
C10_BusyWhileInFlight ==
    /\ \A i \in DOMAIN calls : InFlight(calls[i]) => isCancelling(calls[i].runId)
    /\ Cardinality({r \in HookRunIds : isCancelling(r)}) <= 1

====
